---- MODULE Spec2Model ----
(***************************************************************************)
(* BGP connection core of bgpd/bgp_connection.c: the connection object,    *)
(* the connection (ready) queue, the write pipeline obuf -> wbuff ->       *)
(* socket, and the read framer socket -> ibuf -> FSM.                      *)
(*                                                                         *)
(* Pointers into the write buffer are integer addresses, NULL is 0.        *)
(* Bytes are integers 0..255.  Sockets, the selector and the FSM are the   *)
(* environment: what a system call returns is an input of the action that  *)
(* makes the call.                                                         *)
(***************************************************************************)
EXTENDS Integers, Sequences, FiniteSets, TLC

(* ------------------------------------------------------------------ *)
(* Bounds of the model                                                 *)
(* ------------------------------------------------------------------ *)

\* number of connection structures the engine can hold
NConns == 3

\* number of sessions
NSessions == 2

\* largest BGP message, in bytes (4096 in bgpd; scaled: the code uses it
\* only in comparisons and to size the write buffer)
BGP_MAX_MSG_L == 21

\* messages handed to bgp_connection_write in the write-pipeline runs
MaxWrites == 2

\* messages handed to bgp_connection_write in the buffer-filling runs
MaxFill == 11

\* system calls one invocation of a qpselect action gets answered
MaxSyscalls == 2

\* messages in the byte stream a peer sends
MaxStream == 2

\* entries on a connection's pending queue
MaxPending == 1

(* ------------------------------------------------------------------ *)
(* Program constants                                                   *)
(* ------------------------------------------------------------------ *)

NULL == 0

fd_undef == -1

bgp_connection_primary == 0

bgp_connection_secondary == 1

\* length of the BGP message header: marker, length, type
BGP_MH_HEAD_L == 19

\* enum { bgp_wbuff_size = BGP_MAX_MSG_L * 10 }
bgp_wbuff_size == BGP_MAX_MSG_L * 10

Conns == 1..NConns

Sessions == 1..NSessions

Ordinals == {bgp_connection_primary, bgp_connection_secondary}

Fds == {3, 4}

\* address XMALLOC hands out for the write buffer of a connection
XMALLOC_wbuff == 1

(* ------------------------------------------------------------------ *)
(* BGP messages as byte sequences                                      *)
(* ------------------------------------------------------------------ *)

Marker == [i \in 1..16 |-> 255]

\* a message with the given length field, type and body bytes
MkHeader(len, type) == Marker \o <<len \div 256, len % 256>> \o <<type>>

MkMsg(type, body) == MkHeader(BGP_MH_HEAD_L + Len(body), type) \o body

KEEPALIVE == MkMsg(4, <<>>)

\* an UPDATE of `n` bytes in all, body bytes 1, 2, ...
UPDATE(n) == MkMsg(2, [i \in 1..(n - BGP_MH_HEAD_L) |-> i])

RECURSIVE Flatten(_)
Flatten(ss) == IF ss = <<>> THEN <<>> ELSE Head(ss) \o Flatten(Tail(ss))

IsPrefix(s, t) == Len(s) <= Len(t) /\ s = SubSeq(t, 1, Len(s))

Min(a, b) == IF a <= b THEN a ELSE b

(* ------------------------------------------------------------------ *)
(* State                                                               *)
(* ------------------------------------------------------------------ *)

VARIABLES
  bgp_connection_queue,  \* static bgp_connection bgp_connection_queue
  allocated,             \* connection structures that have been initialised
  conn,                  \* scalar fields of struct bgp_connection
  state,                 \* connection->state
  next,                  \* connection->next
  prev,                  \* connection->prev
  qf,                    \* connection->qf: fd, selection, enabled modes
  ibuf,                  \* connection->ibuf
  obuf,                  \* connection->obuf
  read_pending,          \* connection->read_pending
  read_header,           \* connection->read_header
  notification_pending,  \* connection->notification_pending
  wbuff,                 \* connection->wbuff
  pending_queue,         \* connection->pending_queue
  session,               \* struct bgp_session, per session
  rx,                    \* bytes the peer sent that were not read yet
  rx_msgs,               \* the messages the peer sent, in order
  dispatched,            \* messages handed to bgp_msg_dispatch
  unsent,                \* bytes of the messages handed to
                         \* bgp_connection_write the socket has yet to take
  tx_ok,                 \* the socket has taken just those bytes, in order
  nwrites,               \* messages handed to bgp_connection_write since
                         \* the connection was initialised
  last,                  \* the operation that ran last, its result and
                         \* the events it raised to the FSM
  qp,                    \* 0, or while bgp_connection_queue_process runs
                         \* 1 and 2 in turn, one loop iteration after the
                         \* other
  aborted                \* an assert() failed: the process is gone

vars == <<bgp_connection_queue, allocated, conn, state, next, prev, qf,
          ibuf, obuf, read_pending, read_header, notification_pending,
          wbuff, pending_queue, session, rx, rx_msgs, dispatched, unsent,
          tx_ok, nwrites, last, qp, aborted>>

\* the variables of the connection queue
qvars == <<bgp_connection_queue, next, prev>>

\* the variables of the environment's sockets and of the FSM's inputs
envvars == <<rx, rx_msgs, dispatched, unsent, tx_ok, nwrites>>

\* a zeroised struct bgp_connection (the scalar fields)
ZeroConn ==
  [ session |-> NULL, ordinal |-> 0, accepted |-> FALSE,
    post |-> "null_event", stopped |-> "not", err |-> 0,
    notification |-> NULL, open_recv |-> NULL,
    su_local |-> NULL, su_remote |-> NULL,
    hold_timer_interval |-> 0, keepalive_timer_interval |-> 0,
    hold_timer |-> "none", keepalive_timer |-> "none",
    host |-> <<>> ]

\* a zeroised struct bgp_wbuffer; mem is the memory from base on,
\* as far as it has been written
ZeroWbuff ==
  [ base |-> NULL, limit |-> NULL, p_in |-> NULL, p_out |-> NULL,
    full |-> FALSE, mem |-> <<>> ]

\* a qps_file that is in no selection and has no fd
ZeroQf == [ fd |-> fd_undef, selection |-> FALSE,
            read |-> FALSE, write |-> FALSE ]

ZeroSession ==
  [ connections |-> [o \in Ordinals |-> NULL],
    host |-> "peer", hold_timer_interval |-> 90,
    keepalive_timer_interval |-> 30,
    su_local |-> NULL, su_remote |-> NULL, open_recv |-> NULL,
    accept |-> TRUE,
    \* session->mutex: who holds it ("free", "io_engine", "control")
    mutex |-> "free" ]

Init ==
  /\ bgp_connection_queue = NULL
  /\ allocated = {}
  /\ conn = [c \in Conns |-> ZeroConn]
  /\ state = [c \in Conns |-> "Initial"]
  /\ next = [c \in Conns |-> NULL]
  /\ prev = [c \in Conns |-> NULL]
  /\ qf = [c \in Conns |-> ZeroQf]
  /\ ibuf = [c \in Conns |-> <<>>]
  /\ obuf = [c \in Conns |-> <<>>]
  /\ read_pending = [c \in Conns |-> 0]
  /\ read_header = [c \in Conns |-> FALSE]
  /\ notification_pending = [c \in Conns |-> FALSE]
  /\ wbuff = [c \in Conns |-> ZeroWbuff]
  /\ pending_queue = [c \in Conns |-> <<>>]
  /\ session = [s \in Sessions |-> ZeroSession]
  /\ rx = [c \in Conns |-> <<>>]
  /\ rx_msgs = [c \in Conns |-> <<>>]
  /\ dispatched = [c \in Conns |-> <<>>]
  /\ unsent = [c \in Conns |-> <<>>]
  /\ tx_ok = [c \in Conns |-> TRUE]
  /\ nwrites = [c \in Conns |-> 0]
  /\ last = [op |-> "none", c |-> NULL, ret |-> 0, raised |-> <<>>]
  /\ qp = 0
  /\ aborted = FALSE

\* the engine is between callbacks: nothing runs, nothing has aborted
Idle == qp = 0 /\ ~aborted

\* the socket of c is new, or gone: nothing is owed to it
NewSocket(c) ==
  /\ unsent' = [unsent EXCEPT ![c] = <<>>]
  /\ tx_ok' = [tx_ok EXCEPT ![c] = TRUE]

\* the socket of c takes the bytes `sent`, after `owed` more bytes were
\* handed over for it
SocketTakes(c, owed, sent) ==
  LET due == unsent[c] \o owed
  IN  IF tx_ok[c] /\ IsPrefix(sent, due)
      THEN /\ unsent' = [unsent EXCEPT
                           ![c] = SubSeq(due, Len(sent) + 1, Len(due))]
           /\ UNCHANGED tx_ok
      ELSE /\ unsent' = [unsent EXCEPT ![c] = <<>>]
           /\ tx_ok' = [tx_ok EXCEPT ![c] = FALSE]

(* ------------------------------------------------------------------ *)
(* Managing bgp_connection structures                                  *)
(* ------------------------------------------------------------------ *)

bgp_connection_tags(ordinal) ==
  IF ordinal = bgp_connection_primary THEN "(primary)" ELSE "(secondary)"

\* session->host + tag, as the pair of the two strings
bgp_connection_init_host(s, tag) == <<session[s].host, tag>>

\* c not in allocated is the call with connection == NULL (XCALLOC), c in
\* allocated the call that zeroises an existing structure
bgp_connection_init_new(c, s, ordinal) ==
  /\ Idle
  /\ session[s].connections[ordinal] = NULL
  /\ allocated' = allocated \cup {c}
  /\ conn' = [conn EXCEPT ![c] =
        [ZeroConn EXCEPT !.session = s, !.ordinal = ordinal,
           !.accepted = (ordinal = bgp_connection_secondary),
           !.hold_timer = "unset", !.keepalive_timer = "unset",
           !.host = bgp_connection_init_host(s, bgp_connection_tags(ordinal))]]
  /\ state' = [state EXCEPT ![c] = "Initial"]
  /\ next' = [next EXCEPT ![c] = NULL]
  /\ prev' = [prev EXCEPT ![c] = NULL]
  /\ session' = [session EXCEPT ![s].connections[ordinal] = c]
  /\ qf' = [qf EXCEPT ![c] = ZeroQf]
  /\ ibuf' = [ibuf EXCEPT ![c] = <<>>]
  /\ obuf' = [obuf EXCEPT ![c] = <<>>]
  /\ read_pending' = [read_pending EXCEPT ![c] = 0]
  /\ read_header' = [read_header EXCEPT ![c] = FALSE]
  /\ notification_pending' = [notification_pending EXCEPT ![c] = FALSE]
  /\ wbuff' = [wbuff EXCEPT ![c] = ZeroWbuff]
  /\ pending_queue' = [pending_queue EXCEPT ![c] = <<>>]
  /\ last' = [op |-> "init_new", c |-> c, ret |-> 0, raised |-> <<>>]
  /\ NewSocket(c)
  /\ nwrites' = [nwrites EXCEPT ![c] = 0]
  /\ UNCHANGED <<bgp_connection_queue, rx, rx_msgs, dispatched, qp, aborted>>

\* session->connections[connection->ordinal ^ 1], NULL without a session
bgp_connection_get_sibling(c) ==
  IF conn[c].session = NULL THEN NULL
  ELSE session[conn[c].session].connections[1 - conn[c].ordinal]

\* what an OPEN message and the connected socket can give a connection:
\* the open_state, the two negotiated intervals and the two endpoints
Negotiated ==
  { [open_recv |-> 11, hold |-> 90, keepalive |-> 30, su_local |-> 21,
     su_remote |-> 31],
    [open_recv |-> 12, hold |-> 9, keepalive |-> 3, su_local |-> 21,
     su_remote |-> 32] }

\* the FSM has read the peer's OPEN on c and knows the socket's endpoints:
\* it keeps the open_state, the negotiated intervals and the addresses in
\* the connection
fsm_open_received(c, n) ==
  /\ Idle
  /\ c \in allocated
  /\ qf[c].fd # fd_undef
  /\ conn' = [conn EXCEPT
        ![c].open_recv = n.open_recv,
        ![c].hold_timer_interval = n.hold,
        ![c].keepalive_timer_interval = n.keepalive,
        ![c].su_local = n.su_local, ![c].su_remote = n.su_remote]
  /\ last' = [op |-> "open_received", c |-> c, ret |-> 0, raised |-> <<>>]
  /\ UNCHANGED <<bgp_connection_queue, allocated, state, next, prev, qf,
                 ibuf, obuf, read_pending, read_header, notification_pending,
                 wbuff, pending_queue, session, envvars, qp, aborted>>

\* a make_primary that leaves the secondary slot of the session as it was
make_primary_connections_kept(c, cn, slots) ==
  IF cn.ordinal # bgp_connection_primary
  THEN [slots EXCEPT ![bgp_connection_primary] = c]
  ELSE slots

\* session->connections[] after bgp_connection_make_primary(c), cn being
\* the connection as it was before the call
make_primary_connections(c, cn, slots) ==
  LET s1 == IF cn.ordinal # bgp_connection_primary
            THEN [slots EXCEPT ![bgp_connection_primary] = c]
            ELSE slots
  IN  [s1 EXCEPT ![bgp_connection_secondary] = NULL]

\* a make_primary that keeps the connection's pointer to su_remote
make_primary_conn_su_kept(cn, host) ==
  [cn EXCEPT !.ordinal = bgp_connection_primary, !.open_recv = NULL,
             !.host = host, !.su_local = NULL]

\* a make_primary that leaves the connection's ordinal as it was
make_primary_conn_ordinal_kept(cn, host) ==
  [cn EXCEPT !.open_recv = NULL, !.host = host, !.su_local = NULL,
             !.su_remote = NULL]

\* the connection after bgp_connection_make_primary
make_primary_conn(cn, host) ==
  [cn EXCEPT !.ordinal = bgp_connection_primary, !.open_recv = NULL,
             !.host = host, !.su_local = NULL, !.su_remote = NULL]

\* the session after bgp_connection_make_primary(c), cn being the
\* connection as it was before the call
make_primary_session(c, cn, ss) ==
  [ss EXCEPT
     !.connections = make_primary_connections(c, cn, ss.connections),
     !.open_recv = cn.open_recv,
     !.hold_timer_interval = cn.hold_timer_interval,
     !.keepalive_timer_interval = ss.keepalive_timer_interval,
     !.su_local = cn.su_local,
     !.su_remote = cn.su_remote]

\* c is the connection its session holds in the slot of c's ordinal
attached(c) ==
  /\ c \in allocated
  /\ conn[c].session # NULL
  /\ session[conn[c].session].connections[conn[c].ordinal] = c

\* called for a connection of the session, once the collision is resolved
\* in its favour
bgp_connection_make_primary(c) ==
  /\ Idle
  /\ attached(c)
  /\ LET s == conn[c].session
     IN  /\ session' = [session EXCEPT
                          ![s] = make_primary_session(c, conn[c], session[s])]
         /\ conn' = [conn EXCEPT
                       ![c] = make_primary_conn(conn[c],
                                 bgp_connection_init_host(s, ""))]
  /\ last' = [op |-> "make_primary", c |-> c, ret |-> 0, raised |-> <<>>]
  /\ UNCHANGED <<bgp_connection_queue, allocated, state, next, prev, qf,
                 ibuf, obuf, read_pending, read_header, notification_pending,
                 wbuff, pending_queue, envvars, qp, aborted>>

(* ------------------------------------------------------------------ *)
(* bgp_connection_init_new, statement by statement, and the session     *)
(* mutex                                                               *)
(* ------------------------------------------------------------------ *)

\* everything but the session and the I/O engine's last step
nonsessionvars ==
  <<bgp_connection_queue, allocated, conn, state, next, prev, qf, ibuf, obuf,
    read_pending, read_header, notification_pending, wbuff, pending_queue,
    envvars, qp, aborted>>

\* the I/O engine is inside bgp_connection_init_new
init_new_running ==
  \/ last.op \in {"init_new_assert", "init_new_lock"}
  \/ /\ last.op = "init_new"
     /\ session[conn[last.c].session].mutex = "io_engine"

\* the call and its two asserts: the second one reads
\* session->connections[ordinal]
init_new_assert(c, s, ordinal) ==
  /\ Idle
  /\ ~init_new_running
  /\ session[s].connections[ordinal] = NULL
  /\ last' = [op |-> "init_new_assert", c |-> c, ret |-> ordinal,
              raised |-> <<s>>]
  /\ UNCHANGED <<nonsessionvars, session>>

\* BGP_SESSION_LOCK(session)
init_new_lock ==
  /\ Idle
  /\ last.op = "init_new_assert"
  /\ LET s == last.raised[1]
     IN  /\ session[s].mutex = "free"
         /\ session' = [session EXCEPT ![s].mutex = "io_engine"]
  /\ last' = [last EXCEPT !.op = "init_new_lock"]
  /\ UNCHANGED nonsessionvars

\* from the XCALLOC to mqueue_local_init_new
init_new_locked ==
  /\ last.op = "init_new_lock"
  /\ bgp_connection_init_new(last.c, last.raised[1], last.ret)

\* BGP_SESSION_UNLOCK(session) and the return
init_new_unlock ==
  /\ Idle
  /\ last.op = "init_new"
  /\ LET s == conn[last.c].session
     IN  /\ session[s].mutex = "io_engine"
         /\ session' = [session EXCEPT ![s].mutex = "free"]
  /\ last' = [last EXCEPT !.op = "init_new_return"]
  /\ UNCHANGED nonsessionvars

\* the other engine takes the session's mutex
control_lock(s) ==
  /\ ~aborted
  /\ session[s].mutex = "free"
  /\ session' = [session EXCEPT ![s].mutex = "control"]
  /\ UNCHANGED <<nonsessionvars, last>>

\* holding the mutex, it changes a field of the session
control_accept(s) ==
  /\ ~aborted
  /\ session[s].mutex = "control"
  /\ session' = [session EXCEPT ![s].accept = ~@]
  /\ UNCHANGED <<nonsessionvars, last>>

\* and releases the mutex
control_unlock(s) ==
  /\ ~aborted
  /\ session[s].mutex = "control"
  /\ session' = [session EXCEPT ![s].mutex = "free"]
  /\ UNCHANGED <<nonsessionvars, last>>

\* Full if not enough room for a maximum size BGP message
bgp_write_buffer_full(wb) == (wb.limit - wb.p_in) < BGP_MAX_MSG_L

\* Empty if in and out pointers are equal
bgp_write_buffer_empty(wb) == wb.p_out = wb.p_in

\* the buffer as bgp_write_buffer_init_new leaves it; its assert(!wb->full)
\* holds for every size of at least BGP_MAX_MSG_L
bgp_write_buffer_init_new(wb, size) ==
  LET w == [wb EXCEPT !.base = XMALLOC_wbuff, !.limit = XMALLOC_wbuff + size,
                      !.p_in = XMALLOC_wbuff, !.p_out = XMALLOC_wbuff,
                      !.mem = <<>>]
  IN  [w EXCEPT !.full = bgp_write_buffer_full(w)]

(* ------------------------------------------------------------------ *)
(* Connection queue management                                         *)
(* ------------------------------------------------------------------ *)

\* a queue_add that puts the connection in front of the current entry's
\* next instead of behind the current entry
queue_add_after_head(c, q) ==
  IF q.next[c] # NULL THEN q
  ELSE IF q.head = NULL
       THEN [head |-> c, next |-> [q.next EXCEPT ![c] = c],
             prev |-> [q.prev EXCEPT ![c] = c]]
       ELSE LET h == q.head
                n == q.next[h]
            IN  [head |-> h,
                 next |-> [q.next EXCEPT ![c] = n, ![h] = c],
                 prev |-> [[q.prev EXCEPT ![c] = h] EXCEPT ![n] = c]]

\* the three queue variables after bgp_connection_queue_add(c)
queue_add(c, q) ==
  IF q.next[c] # NULL THEN q
  ELSE IF q.head = NULL
       THEN [head |-> c, next |-> [q.next EXCEPT ![c] = c],
             prev |-> [q.prev EXCEPT ![c] = c]]
       ELSE LET h == q.head
                t == q.prev[h]
                n1 == [q.next EXCEPT ![c] = h]
                p1 == [q.prev EXCEPT ![c] = t]
                \* connection->next->prev = connection
                p2 == [p1 EXCEPT ![n1[c]] = c]
                \* connection->prev->next = connection
                n2 == [n1 EXCEPT ![p2[c]] = c]
            IN  [head |-> h, next |-> n2, prev |-> p2]

\* a queue_del that leaves connection->next and connection->prev as they
\* were
queue_del_links_kept(c, q) ==
  IF q.next[c] = NULL THEN q
  ELSE IF c = q.next[c] THEN [q EXCEPT !.head = NULL]
  ELSE LET h == IF c = q.head THEN q.next[c] ELSE q.head
           p1 == [q.prev EXCEPT ![q.next[c]] = q.prev[c]]
           n1 == [q.next EXCEPT ![p1[c]] = q.next[c]]
       IN  [head |-> h, next |-> n1, prev |-> p1]

\* a queue_del that leaves bgp_connection_queue where it was
queue_del_head_kept(c, q) ==
  IF q.next[c] = NULL THEN q
  ELSE IF c = q.next[c]
       THEN [head |-> NULL, next |-> [q.next EXCEPT ![c] = NULL],
             prev |-> [q.prev EXCEPT ![c] = NULL]]
       ELSE LET p1 == [q.prev EXCEPT ![q.next[c]] = q.prev[c]]
                n1 == [q.next EXCEPT ![p1[c]] = q.next[c]]
            IN  [head |-> q.head, next |-> [n1 EXCEPT ![c] = NULL],
                 prev |-> [p1 EXCEPT ![c] = NULL]]

\* the three queue variables after bgp_connection_queue_del(c); its
\* assertion is queue_del_assert
queue_del(c, q) ==
  IF q.next[c] = NULL THEN q
  ELSE IF c = q.next[c]
       THEN [head |-> NULL, next |-> [q.next EXCEPT ![c] = NULL],
             prev |-> [q.prev EXCEPT ![c] = NULL]]
       ELSE LET h == IF c = q.head THEN q.next[c] ELSE q.head
                \* connection->next->prev = connection->prev
                p1 == [q.prev EXCEPT ![q.next[c]] = q.prev[c]]
                \* connection->prev->next = connection->next
                n1 == [q.next EXCEPT ![p1[c]] = q.next[c]]
            IN  [head |-> h, next |-> [n1 EXCEPT ![c] = NULL],
                 prev |-> [p1 EXCEPT ![c] = NULL]]

\* assert((connection == connection->prev)
\*                         && (connection == bgp_connection_queue))
queue_del_assert(c, q) ==
  (q.next[c] # NULL /\ c = q.next[c]) => (c = q.prev[c] /\ c = q.head)

Queue == [head |-> bgp_connection_queue, next |-> next, prev |-> prev]

SetQueue(q) ==
  /\ bgp_connection_queue' = q.head
  /\ next' = q.next
  /\ prev' = q.prev

\* what neither the queue operations nor the FSM's state changes touch
nonqvars == <<allocated, conn, qf, ibuf, obuf, read_pending, read_header,
              notification_pending, wbuff, pending_queue, session, envvars>>

bgp_connection_queue_add(c) ==
  /\ Idle
  /\ c \in allocated
  /\ SetQueue(queue_add(c, Queue))
  /\ last' = [op |-> "queue_add", c |-> c, ret |-> 0, raised |-> <<>>]
  /\ UNCHANGED <<nonqvars, state, qp, aborted>>

bgp_connection_queue_del(c) ==
  /\ Idle
  /\ c \in allocated
  /\ IF queue_del_assert(c, Queue)
     THEN SetQueue(queue_del(c, Queue)) /\ UNCHANGED aborted
     ELSE aborted' = TRUE /\ UNCHANGED qvars
  /\ last' = [op |-> "queue_del", c |-> c, ret |-> 0, raised |-> <<>>]
  /\ UNCHANGED <<nonqvars, state, qp>>

(* ------------------------------------------------------------------ *)
(* Opening and closing connections                                     *)
(* ------------------------------------------------------------------ *)

\* what the lifecycle operations leave alone
lifevars == <<allocated, state, qvars, qp, rx, rx_msgs, dispatched, nwrites>>

\* expects the connection to be newly created or recently closed
bgp_connection_open(c, fd) ==
  /\ Idle
  /\ c \in allocated
  /\ conn[c].session # NULL
  /\ qf[c].fd = fd_undef
  /\ session' = IF conn[c].ordinal = bgp_connection_secondary
                THEN [session EXCEPT ![conn[c].session].accept = FALSE]
                ELSE session
  /\ qf' = [qf EXCEPT ![c] = [ZeroQf EXCEPT !.fd = fd, !.selection = TRUE]]
  /\ conn' = [conn EXCEPT
        ![c].post = "null_event", ![c].err = 0, ![c].stopped = "not",
        ![c].open_recv = NULL, ![c].notification = NULL,
        ![c].hold_timer_interval =
            session[conn[c].session].hold_timer_interval,
        ![c].keepalive_timer_interval =
            session[conn[c].session].keepalive_timer_interval]
  \* a new socket: nothing was sent on it yet
  /\ NewSocket(c)
  /\ last' = [op |-> "open", c |-> c, ret |-> 0, raised |-> <<>>]
  /\ UNCHANGED <<lifevars, ibuf, obuf, read_pending, read_header,
                 notification_pending, wbuff, pending_queue, aborted>>

\* a close that discards the open_state that was received
close_conn_open_recv_freed(c, cn) ==
  [cn EXCEPT ![c].su_local = NULL, ![c].su_remote = NULL,
             ![c].hold_timer = "unset", ![c].keepalive_timer = "unset",
             ![c].open_recv = NULL]

\* a close that keeps the addresses
close_conn_su_kept(c, cn) ==
  [cn EXCEPT ![c].hold_timer = "unset", ![c].keepalive_timer = "unset"]

\* a close that sets p_in where p_out was, and only then p_out to base
close_wbuff_p_in_late(wb) ==
  [wb EXCEPT !.p_in = wb.p_out, !.p_out = wb.base, !.full = FALSE]

\* the fields bgp_connection_close sets, as a map of the connection's state
close_conn(c, cn) ==
  [cn EXCEPT ![c].su_local = NULL, ![c].su_remote = NULL,
             ![c].hold_timer = "unset", ![c].keepalive_timer = "unset"]

close_wbuff(wb) ==
  [wb EXCEPT !.p_in = wb.base, !.p_out = wb.base, !.full = FALSE]

bgp_connection_close(c) ==
  /\ Idle
  /\ c \in allocated
  /\ qf' = [qf EXCEPT ![c] = ZeroQf]
  /\ conn' = close_conn(c, conn)
  /\ ibuf' = [ibuf EXCEPT ![c] = <<>>]
  /\ obuf' = [obuf EXCEPT ![c] = <<>>]
  /\ read_pending' = [read_pending EXCEPT ![c] = 0]
  /\ read_header' = [read_header EXCEPT ![c] = FALSE]
  /\ notification_pending' = [notification_pending EXCEPT ![c] = FALSE]
  /\ wbuff' = [wbuff EXCEPT ![c] = close_wbuff(wbuff[c])]
  /\ pending_queue' = [pending_queue EXCEPT ![c] = <<>>]
  /\ NewSocket(c)
  /\ last' = [op |-> "close", c |-> c, ret |-> 0, raised |-> <<>>]
  /\ UNCHANGED <<lifevars, session, aborted>>

(* ------------------------------------------------------------------ *)
(* The write buffer's memory                                           *)
(* ------------------------------------------------------------------ *)

\* memory `mem` with `data` stored from offset `off` (0 is base) on
Store(mem, off, data) ==
  [i \in 1..(IF Len(mem) > off + Len(data) THEN Len(mem)
                                           ELSE off + Len(data)) |->
     IF i > off /\ i <= off + Len(data) THEN data[i - off]
     ELSE IF i <= Len(mem) THEN mem[i] ELSE 0]

\* the bytes of `mem` at offsets off .. off+n-1
Load(mem, off, n) == [i \in 1..n |-> mem[off + i]]

\* the same where the memory may not have been written: what such a byte
\* holds is of no matter to anything here, it reads as 0
Peek(mem, off, n) ==
  [i \in 1..n |-> IF off + i <= Len(mem) THEN mem[off + i] ELSE 0]

\* the length field of the message header at offset `off`
bgp_msg_get_mlen(mem, off) == mem[off + 17] * 256 + mem[off + 18]

\* stream_transfer(p, s, limit): the stream's bytes stored at p, the
\* address after them returned, the stream reset
stream_transfer(wb, p, s) ==
  [wb EXCEPT !.mem = Store(wb.mem, p - wb.base, s), !.p_in = p + Len(s)]

\* memcpy(dst, src, n) copying from the low end up
RECURSIVE memcpy_up(_, _, _, _, _)
memcpy_up(mem, dst, src, n, i) ==
  IF i >= n THEN mem
  ELSE memcpy_up([mem EXCEPT ![dst + i + 1] = mem[src + i + 1]],
                 dst, src, n, i + 1)

\* memcpy(dst, src, n) copying from the high end down
RECURSIVE memcpy_down(_, _, _, _, _)
memcpy_down(mem, dst, src, n, i) ==
  IF i < 0 THEN mem
  ELSE memcpy_down([mem EXCEPT ![dst + i + 1] = mem[src + i + 1]],
                   dst, src, n, i - 1)

\* memcpy of regions that overlap is undefined: either order of copying
memcpy(mem, dst, src, n, order) ==
  IF order = "up" THEN memcpy_up(mem, dst, src, n, 0)
                  ELSE memcpy_down(mem, dst, src, n, n - 1)

CopyOrders == {"up", "down"}

(* ------------------------------------------------------------------ *)
(* Close for reading and purge the write buffer                        *)
(* ------------------------------------------------------------------ *)

\* do { p += mlen ; mlen = bgp_msg_get_mlen(p) ; }
\*                                  while ((p + mlen) <= wb->p_out)
\* with offsets from base.  ok is FALSE when the walk reads a header no
\* message was written to, or stands still on a length of zero: what the
\* code does then is outside the model.
RECURSIVE part_close_walk(_, _, _)
part_close_walk(mem, p, p_out) ==
  IF p + BGP_MH_HEAD_L > Len(mem) THEN [ok |-> FALSE, p |-> p, mlen |-> 0]
  ELSE LET mlen == bgp_msg_get_mlen(mem, p)
       IN  IF p + mlen <= p_out
           THEN IF mlen = 0 THEN [ok |-> FALSE, p |-> p, mlen |-> 0]
                ELSE part_close_walk(mem, p + mlen, p_out)
           ELSE [ok |-> p + mlen <= Len(mem), p |-> p, mlen |-> mlen]

\* the write buffer as bgp_connection_part_close leaves it, before the
\* final assert; `order` is the order in which memcpy copies
part_close_wbuff(wb, order) ==
  LET w == part_close_walk(wb.mem, 0, wb.p_out - wb.base)
      p == wb.base + w.p
      mlen == IF p = wb.p_out THEN 0 ELSE w.mlen
      purged ==
        IF wb.p_in # wb.p_out
        THEN [wb EXCEPT
               !.mem = IF p = wb.p_out THEN wb.mem
                       ELSE memcpy(wb.mem, 0, w.p, mlen, order),
               !.p_out = wb.base + (wb.p_out - p),
               !.p_in = wb.base + mlen]
        ELSE [wb EXCEPT !.p_in = wb.base, !.p_out = wb.base]
  IN  [purged EXCEPT !.full = bgp_write_buffer_full(purged)]

\* the walk of part_close stays within the messages written
part_close_defined(wb) ==
  wb.p_in # wb.p_out => part_close_walk(wb.mem, 0, wb.p_out - wb.base).ok

bgp_connection_part_close(c, order) ==
  /\ Idle
  /\ c \in allocated
  /\ IF part_close_defined(wbuff[c])
     THEN /\ qf' = IF qf[c].fd # fd_undef
                   THEN [qf EXCEPT ![c].read = FALSE] ELSE qf
          /\ ibuf' = [ibuf EXCEPT ![c] = <<>>]
          /\ obuf' = [obuf EXCEPT ![c] = <<>>]
          /\ read_pending' = [read_pending EXCEPT ![c] = 0]
          /\ read_header' = [read_header EXCEPT ![c] = FALSE]
          /\ notification_pending' =
                [notification_pending EXCEPT ![c] = FALSE]
          /\ wbuff' = [wbuff EXCEPT ![c] = part_close_wbuff(wbuff[c], order)]
          \* what the purge kept is what is owed to the socket now
          /\ unsent' = [unsent EXCEPT ![c] =
                Load(wbuff'[c].mem, wbuff'[c].p_out - wbuff'[c].base,
                     wbuff'[c].p_in - wbuff'[c].p_out)]
          \* assert(!wb->full)
          /\ IF wbuff'[c].full
             THEN /\ aborted' = TRUE
                  /\ UNCHANGED pending_queue
                  /\ last' = [op |-> "part_close", c |-> c, ret |-> -1, raised |-> <<>>]
             ELSE /\ UNCHANGED aborted
                  /\ pending_queue' = [pending_queue EXCEPT ![c] = <<>>]
                  /\ last' = [op |-> "part_close", c |-> c, ret |-> 0, raised |-> <<>>]
     ELSE /\ aborted' = TRUE
          /\ last' = [op |-> "part_close", c |-> c, ret |-> -2, raised |-> <<>>]
          /\ UNCHANGED <<qf, ibuf, obuf, read_pending, read_header,
                         notification_pending, wbuff, pending_queue, unsent>>
  /\ UNCHANGED <<lifevars, conn, session, tx_ok>>

(* ------------------------------------------------------------------ *)
(* Writing to a BGP connection                                         *)
(* ------------------------------------------------------------------ *)

\* the FSM events this file raises
io_error(errno) == [event |-> "io_error", errno |-> errno]

Sent_NOTIFICATION_message ==
  [event |-> "Sent_NOTIFICATION_message", errno |-> 0]

\* errno values of a failing system call
EINTR == 4

EIO == 5

EAGAIN == 11

EINVAL == 22

\* what write() may answer: -errno, or the room the socket has (> 0)
WriteAnswers == {-EINTR, -EAGAIN, -EINVAL, 1, BGP_MAX_MSG_L}

\* what the socket may do with a message of L bytes in the direct write:
\* take its first k bytes (and then block), or fail
FlushAnswers(L) == {0, L - 1, L, -EIO}

\* stream_flush_try(obuf, fd): returns the number of bytes left to write,
\* 0 when all of the stream was written, -1 for an error
stream_flush_try(s, k) == IF k < 0 THEN -1 ELSE Len(s) - k

\* a write_direct that leaves p_out at the start of the staged message
write_direct_p_out_at_base(wb, m, k) ==
  LET ret == stream_flush_try(m, k)
  IN  IF ret = 0
        THEN [wb |-> wb, sent |-> m, ret |-> 1, enable |-> FALSE]
      ELSE IF ret > 0
        THEN LET w0 == IF wb.base = NULL
                       THEN bgp_write_buffer_init_new(wb, bgp_wbuff_size)
                       ELSE wb
                 w1 == stream_transfer(w0, w0.base, m)
             IN  [wb |-> [w1 EXCEPT !.p_out = w1.base],
                  sent |-> SubSeq(m, 1, Len(m) - ret), ret |-> 0,
                  enable |-> TRUE]
      ELSE [wb |-> wb, sent |-> <<>>, ret |-> -1, enable |-> FALSE]

\* bgp_connection_write_direct: wb, the bytes sent, the return value and
\* whether write mode got enabled
bgp_connection_write_direct(wb, m, k) ==
  LET ret == stream_flush_try(m, k)
  IN  IF ret = 0
        THEN [wb |-> wb, sent |-> m, ret |-> 1, enable |-> FALSE]
      ELSE IF ret > 0
        THEN LET w0 == IF wb.base = NULL
                       THEN bgp_write_buffer_init_new(wb, bgp_wbuff_size)
                       ELSE wb
                 w1 == stream_transfer(w0, w0.base, m)
             IN  [wb |-> [w1 EXCEPT !.p_out = w1.p_in - ret],
                  sent |-> SubSeq(m, 1, Len(m) - ret), ret |-> 0,
                  enable |-> TRUE]
      ELSE [wb |-> wb, sent |-> <<>>, ret |-> -1, enable |-> FALSE]

\* bgp_connection_write, the message m composed in obuf
connection_write(wb, m, k) ==
  IF bgp_write_buffer_empty(wb)
  THEN bgp_connection_write_direct(wb, m, k)
  ELSE [wb |-> stream_transfer(wb, wb.p_in, m), sent |-> <<>>, ret |-> 1,
        enable |-> FALSE]

\* MUST not be here if wbuff is full
bgp_connection_write(c, m, k) ==
  /\ Idle
  /\ c \in allocated
  /\ qf[c].fd # fd_undef
  /\ ~wbuff[c].full
  /\ LET r == connection_write(wbuff[c], m, k)
     IN  /\ wbuff' = [wbuff EXCEPT ![c] = r.wb]
         /\ SocketTakes(c, IF r.ret = -1 THEN <<>> ELSE m, r.sent)
         /\ nwrites' = IF r.ret = -1 THEN nwrites
                       ELSE [nwrites EXCEPT ![c] = @ + 1]
         /\ obuf' = [obuf EXCEPT ![c] = IF r.ret = -1 THEN m ELSE <<>>]
         /\ qf' = IF r.enable THEN [qf EXCEPT ![c].write = TRUE] ELSE qf
         /\ last' = [op |-> "write", c |-> c, ret |-> r.ret,
                     raised |-> IF r.ret = -1 THEN <<io_error(-k)>>
                                ELSE <<>>]
  /\ UNCHANGED <<allocated, conn, state, qvars, ibuf, read_pending,
                 read_header, notification_pending, pending_queue, session,
                 rx, rx_msgs, dispatched, qp, aborted>>

(* ------------------------------------------------------------------ *)
(* Write action                                                        *)
(* ------------------------------------------------------------------ *)

\* a write_action that finds nothing to write
write_action_have_zero(wb) == 0

\* have = wb->p_out - wb->p_in
write_action_have(wb) == wb.p_out - wb.p_in

\* the bytes write(fd, wb->p_out, have) can take from memory: `have` of
\* them; a negative `have` is, as the size_t count of write(), larger
\* than SSIZE_MAX, and what write() does with it is implementation
\* defined: it fails with EINVAL, or takes what it can read, which is
\* the rest of the buffer
write_count(wb, have) ==
  LET readable == wb.limit - wb.p_out
  IN  IF have > 0 /\ have < readable THEN have ELSE readable

\* while (have != 0) { ret = write(...) ; ... }, the system calls
\* answered by `answers` in turn.  end: "drained" (have == 0), "return"
\* (EAGAIN or an error), "more" (the loop asks for another system call)
RECURSIVE write_action_loop(_, _, _, _)
write_action_loop(wb, have, answers, sent) ==
  IF have = 0
    THEN [wb |-> wb, sent |-> sent, end |-> "drained", left |-> answers,
          errno |-> 0]
  ELSE IF answers = <<>>
    THEN [wb |-> wb, sent |-> sent, end |-> "more", left |-> answers,
          errno |-> 0]
  ELSE LET a == Head(answers)
           ret == IF a > 0 /\ a < write_count(wb, have) THEN a
                  ELSE IF a > 0 THEN write_count(wb, have) ELSE -1
       IN  IF ret > 0
             THEN write_action_loop(
                    [wb EXCEPT !.p_out = wb.p_out + ret], have - ret,
                    Tail(answers),
                    sent \o Peek(wb.mem, wb.p_out - wb.base, ret))
           ELSE IF a = -EINTR
             THEN write_action_loop(wb, have, Tail(answers), sent)
           ELSE [wb |-> wb, sent |-> sent, end |-> "return",
                 left |-> Tail(answers),
                 errno |-> IF a = -EAGAIN THEN 0
                           ELSE IF a > 0 THEN EINVAL ELSE -a]

\* sequences of at most n answers
AnswerSeqs(n) == UNION {[1..i -> WriteAnswers] : i \in 0..n}

bgp_connection_write_action(c, answers) ==
  /\ Idle
  /\ c \in allocated
  /\ qf[c].fd # fd_undef
  /\ qf[c].write
  /\ LET r == write_action_loop(wbuff[c], write_action_have(wbuff[c]),
                                answers, <<>>)
     IN  /\ r.end # "more"
         /\ r.left = <<>>
         /\ SocketTakes(c, <<>>, r.sent)
         /\ IF r.end = "drained"
            THEN /\ wbuff' = [wbuff EXCEPT ![c] =
                       [r.wb EXCEPT !.p_out = r.wb.base, !.p_in = r.wb.base,
                                    !.full = FALSE]]
                 /\ qf' = [qf EXCEPT ![c].write = FALSE]
                 /\ IF notification_pending[c]
                    THEN UNCHANGED qvars
                    ELSE SetQueue(queue_add(c, Queue))
            ELSE /\ wbuff' = [wbuff EXCEPT ![c] = r.wb]
                 /\ UNCHANGED <<qf, qvars>>
         /\ last' =
              [op |-> "write_action", c |-> c,
               ret |-> IF r.end = "drained" THEN 1 ELSE 0,
               raised |->
                 IF r.end = "drained"
                 THEN IF notification_pending[c]
                      THEN <<Sent_NOTIFICATION_message>> ELSE <<>>
                 ELSE IF r.errno # 0 THEN <<io_error(r.errno)>> ELSE <<>>]
  /\ UNCHANGED <<allocated, conn, state, ibuf, obuf, read_pending,
                 read_header, notification_pending, pending_queue, session,
                 rx, rx_msgs, dispatched, nwrites, qp, aborted>>

\* the FSM has composed a NOTIFICATION and is about to write it: it
\* notes that the end of the writing is to be reported to it
fsm_notification_pending(c) ==
  /\ Idle
  /\ c \in allocated
  /\ qf[c].fd # fd_undef
  /\ ~notification_pending[c]
  /\ notification_pending' = [notification_pending EXCEPT ![c] = TRUE]
  /\ last' = [op |-> "notification_pending", c |-> c, ret |-> 0,
              raised |-> <<>>]
  /\ UNCHANGED <<bgp_connection_queue, allocated, conn, state, next, prev,
                 qf, ibuf, obuf, read_pending, read_header, wbuff,
                 pending_queue, session, envvars, qp, aborted>>

\* how the FSM can stop a connection: the stopped cause and the
\* notification that was sent or received, if any
Stops ==
  { [stopped |-> "collision", notification |-> NULL],
    [stopped |-> "notification", notification |-> 41] }

\* the FSM records why the connection stops
fsm_stopped(c, st) ==
  /\ Idle
  /\ c \in allocated
  /\ qf[c].fd # fd_undef
  /\ conn[c].stopped = "not"
  /\ conn' = [conn EXCEPT ![c].stopped = st.stopped,
                          ![c].notification = st.notification]
  /\ last' = [op |-> "stopped", c |-> c, ret |-> 0, raised |-> <<>>]
  /\ UNCHANGED <<bgp_connection_queue, allocated, state, next, prev, qf,
                 ibuf, obuf, read_pending, read_header, notification_pending,
                 wbuff, pending_queue, session, envvars, qp, aborted>>

(* ------------------------------------------------------------------ *)
(* Read action                                                         *)
(* ------------------------------------------------------------------ *)

\* the header fields of the message in a buffer
msg_marker(b) == SubSeq(b, 1, 16)

msg_length(b) == b[17] * 256 + b[18]

msg_type(b) == b[19]

\* the message types of RFC 4271 (ROUTE-REFRESH is not negotiated)
MsgTypes == 1..4

\* bgp_msg_check_header(ibuf): the balance of the message still to read,
\* negative when the header is bad (and the FSM has been told)
bgp_msg_check_header(b) ==
  IF /\ msg_marker(b) = Marker
     /\ msg_length(b) >= BGP_MH_HEAD_L
     /\ msg_length(b) <= BGP_MAX_MSG_L
     /\ msg_type(b) \in MsgTypes
  THEN msg_length(b) - BGP_MH_HEAD_L
  ELSE -1

\* the event bgp_msg_check_header raises for a bad header
header_error == [event |-> "header_error", errno |-> 0]

\* what a socket with no bytes answers to a read: would block (1), the
\* read fails (-errno), or the peer has closed (0)
ReadAnswers == {1, -EIO, 0}

\* if (want == 0) { want = BGP_MH_HEAD_L ; stream_reset(ibuf) ;
\*                                            read_header = 1 ; }
read_action_begin(pending, header, ib) ==
  IF pending = 0
  THEN [want |-> BGP_MH_HEAD_L, ibuf |-> <<>>, read_header |-> TRUE]
  ELSE [want |-> pending, ibuf |-> ib, read_header |-> header]

\* a framer that goes on whatever the header check returned
header_check_ignored(want) == FALSE

\* if (want < 0) return ;    -- failed in header check
header_check_failed(want) == want < 0

\* a framer that leaves read_pending as it is after the dispatch
read_pending_kept(pending) == pending

\* connection->read_pending = 0, after bgp_msg_dispatch
read_pending_after_dispatch(pending) == 0

\* ret = stream_read_unblock(ibuf, fd, want): the bytes the socket has,
\* up to want of them; once it has none, what it answers
stream_read_unblock(want, has, answer) ==
  IF want = 0 \/ has # <<>> THEN Min(want, Len(has))
  ELSE IF answer = 1 THEN 0
  ELSE IF answer = 0 THEN -2
  ELSE -1

\* while (1) { ret = stream_read_unblock(ibuf, fd, want) ; ... }
\* r: want, ibuf, read_header, read_pending, rx, answer.
\* end: "wait" (must wait for the rest), "message" (got complete
\* message), "header" (failed in header check), "error"
RECURSIVE read_action_loop(_)
read_action_loop(r) ==
  LET ret == stream_read_unblock(r.want, r.rx, r.answer)
  IN  IF ret >= 0
      THEN LET want == r.want - ret
               r1 == [r EXCEPT !.ibuf = r.ibuf \o SubSeq(r.rx, 1, ret),
                               !.rx = SubSeq(r.rx, ret + 1, Len(r.rx)),
                               !.want = want]
           IN  IF want # 0
                 THEN [r1 EXCEPT !.read_pending = want, !.end = "wait"]
               ELSE IF ~r.read_header
                 THEN [r1 EXCEPT !.end = "message"]
               ELSE LET balance == bgp_msg_check_header(r1.ibuf)
                    IN  IF header_check_failed(balance)
                        THEN [r1 EXCEPT !.read_header = FALSE,
                                        !.want = balance,
                                        !.end = "header"]
                        ELSE read_action_loop(
                               [r1 EXCEPT !.read_header = FALSE,
                                          !.want = balance])
      ELSE [r EXCEPT !.end = "error",
                     !.errno = IF ret = -1 THEN -r.answer ELSE 0]

\* `avail` of the bytes the peer sent have arrived at the socket and are
\* taken by this call: bytes that arrived and the call does not take are
\* as good as bytes yet to arrive.  `answer` is what the socket says to
\* a read once it has no bytes.
bgp_connection_read_action(c, avail, answer) ==
  /\ Idle
  /\ c \in allocated
  /\ qf[c].fd # fd_undef
  /\ avail <= Len(rx[c])
  /\ LET b == read_action_begin(read_pending[c], read_header[c], ibuf[c])
         r == read_action_loop(
                [want |-> b.want, ibuf |-> b.ibuf,
                 read_header |-> b.read_header,
                 read_pending |-> read_pending[c],
                 rx |-> SubSeq(rx[c], 1, avail),
                 answer |-> answer, end |-> "", errno |-> 0])
     IN  /\ r.rx = <<>>
         /\ answer # 1 => r.end = "error"
         /\ ibuf' = [ibuf EXCEPT ![c] = r.ibuf]
         /\ rx' = [rx EXCEPT ![c] = SubSeq(rx[c], avail + 1, Len(rx[c]))]
         /\ read_header' = [read_header EXCEPT ![c] = r.read_header]
         /\ read_pending' = [read_pending EXCEPT ![c] =
               IF r.end = "message"
               THEN read_pending_after_dispatch(r.read_pending)
               ELSE r.read_pending]
         \* bgp_msg_dispatch(connection)
         /\ dispatched' = IF r.end = "message"
                          THEN [dispatched EXCEPT ![c] = Append(@, r.ibuf)]
                          ELSE dispatched
         /\ last' = [op |-> "read_action", c |-> c,
                     ret |-> IF r.end = "message" THEN 1 ELSE 0,
                     raised |-> IF r.end = "header" THEN <<header_error>>
                                ELSE IF r.end = "error"
                                  THEN <<io_error(r.errno)>>
                                ELSE <<>>]
  /\ UNCHANGED <<allocated, conn, state, qvars, qf, obuf,
                 notification_pending, wbuff, pending_queue, session,
                 rx_msgs, unsent, tx_ok, nwrites, qp, aborted>>

(* ------------------------------------------------------------------ *)
(* The peer and its socket                                             *)
(* ------------------------------------------------------------------ *)

\* the peer sends the message m
peer_sends(c, m) ==
  /\ Idle
  /\ qf[c].fd # fd_undef
  /\ rx' = [rx EXCEPT ![c] = @ \o m]
  /\ rx_msgs' = [rx_msgs EXCEPT ![c] = Append(@, m)]
  /\ last' = [op |-> "peer_sends", c |-> c, ret |-> 0, raised |-> <<>>]
  /\ UNCHANGED <<bgp_connection_queue, allocated, conn, state, next, prev,
                 qf, ibuf, obuf, read_pending, read_header,
                 notification_pending, wbuff, pending_queue, session,
                 dispatched, unsent, tx_ok, nwrites, qp, aborted>>

(* ------------------------------------------------------------------ *)
(* Processing the connection queue                                     *)
(* ------------------------------------------------------------------ *)

\* the FSM moves the connection to the state st
fsm_state(c, st) ==
  /\ Idle
  /\ c \in allocated
  /\ state[c] # st
  /\ state' = [state EXCEPT ![c] = st]
  /\ last' = [op |-> "fsm_state", c |-> c, ret |-> 0, raised |-> <<>>]
  /\ UNCHANGED <<nonqvars, qvars, qp, aborted>>

\* a message for the FSM is put on the connection's pending queue
mqueue_enqueue(c, mqb) ==
  /\ Idle
  /\ c \in allocated
  /\ pending_queue' = [pending_queue EXCEPT ![c] = Append(@, mqb)]
  /\ last' = [op |-> "mqueue_enqueue", c |-> c, ret |-> 0, raised |-> <<>>]
  /\ UNCHANGED <<allocated, conn, qf, ibuf, obuf, read_pending, read_header,
                 notification_pending, wbuff, session, envvars, state,
                 qvars, qp, aborted>>

\* the engine calls bgp_connection_queue_process
queue_process_call ==
  /\ Idle
  /\ qp' = 1
  /\ last' = [op |-> "queue_process", c |-> NULL, ret |-> 0, raised |-> <<>>]
  /\ UNCHANGED <<nonqvars, qvars, state, aborted>>

\* a bgp_connection_reset that leaves the connection on the queue
bgp_connection_reset_kept(c, q) == q

\* bgp_connection_reset(connection): closes the connection and takes
\* it off the connection queue
bgp_connection_reset(c, q) == queue_del(c, q)

\* one iteration of while (bgp_connection_queue != NULL) { ... }
queue_process_loop ==
  /\ qp # 0 /\ ~aborted
  /\ bgp_connection_queue # NULL
  /\ LET connection == bgp_connection_queue
         stepped == [Queue EXCEPT !.head = next[connection]]
     IN  /\ IF state[connection] = "Stopping"
            THEN /\ SetQueue(bgp_connection_reset(connection, stepped))
                 /\ qf' = [qf EXCEPT ![connection] = ZeroQf]
                 /\ conn' = close_conn(connection, conn)
                 /\ ibuf' = [ibuf EXCEPT ![connection] = <<>>]
                 /\ obuf' = [obuf EXCEPT ![connection] = <<>>]
                 /\ read_pending' = [read_pending EXCEPT ![connection] = 0]
                 /\ read_header' =
                      [read_header EXCEPT ![connection] = FALSE]
                 /\ notification_pending' =
                      [notification_pending EXCEPT ![connection] = FALSE]
                 /\ wbuff' = [wbuff EXCEPT
                                ![connection] = close_wbuff(wbuff[connection])]
                 /\ pending_queue' =
                      [pending_queue EXCEPT ![connection] = <<>>]
                 /\ unsent' = [unsent EXCEPT ![connection] = <<>>]
                 /\ tx_ok' = [tx_ok EXCEPT ![connection] = TRUE]
            ELSE /\ SetQueue(stepped)
                 /\ UNCHANGED <<qf, conn, ibuf, obuf, read_pending,
                                read_header, notification_pending, wbuff,
                                pending_queue, unsent, tx_ok>>
         /\ last' = [op |-> "queue_process", c |-> connection,
                     ret |-> IF state[connection] = "Stopping" THEN 1 ELSE 0,
                     raised |-> <<>>]
  /\ qp' = 3 - qp
  /\ UNCHANGED <<allocated, state, session, rx, rx_msgs, dispatched,
                 nwrites, aborted>>

\* the loop ends: bgp_connection_queue == NULL
queue_process_return ==
  /\ qp # 0 /\ ~aborted
  /\ bgp_connection_queue = NULL
  /\ qp' = 0
  /\ last' = [op |-> "queue_process", c |-> NULL, ret |-> 1, raised |-> <<>>]
  /\ UNCHANGED <<nonqvars, qvars, state, aborted>>

(* ------------------------------------------------------------------ *)
(* The write pipeline: write and write_action on one connection        *)
(* ------------------------------------------------------------------ *)

\* the messages the FSM composes in obuf
WriteMsgs == {KEEPALIVE, UPDATE(BGP_MAX_MSG_L)}

\* the connection whose pipeline is exercised
WConn == CHOOSE c \in Conns : \A d \in Conns : c <= d

\* the fd of its socket
WFd == CHOOSE fd \in Fds : \A g \in Fds : fd <= g

NextW ==
  \/ bgp_connection_init_new(WConn, 1, bgp_connection_primary)
  \/ bgp_connection_open(WConn, WFd)
  \/ \E m \in WriteMsgs : \E k \in FlushAnswers(Len(m)) :
       /\ nwrites[WConn] < MaxWrites
       /\ bgp_connection_write(WConn, m, k)
  \/ \E a \in AnswerSeqs(MaxSyscalls) : bgp_connection_write_action(WConn, a)

SpecW == Init /\ [][NextW]_vars

\* the same with the purge and the close
NextL ==
  \/ NextW
  \/ \E order \in CopyOrders : bgp_connection_part_close(WConn, order)
  \/ bgp_connection_close(WConn)

SpecL == Init /\ [][NextL]_vars

\* filling the write buffer: messages of the largest size are handed
\* over while the buffer does not say it is full, and the socket takes
\* none of what is staged
NextFill ==
  \/ bgp_connection_init_new(WConn, 1, bgp_connection_primary)
  \/ bgp_connection_open(WConn, WFd)
  \/ \E k \in FlushAnswers(BGP_MAX_MSG_L) :
       /\ nwrites[WConn] < MaxFill
       /\ bgp_connection_write(WConn, UPDATE(BGP_MAX_MSG_L), k)

SpecFill == Init /\ [][NextFill]_vars

(* ------------------------------------------------------------------ *)
(* The read framer on one connection                                   *)
(* ------------------------------------------------------------------ *)

\* the connection whose framer is exercised
RConn == WConn

\* well-formed messages a peer sends
GoodMsgs == {KEEPALIVE, UPDATE(BGP_MAX_MSG_L)}

\* headers that fail validation: marker, length, type
BadMsgs ==
  { [MkHeader(BGP_MH_HEAD_L, 4) EXCEPT ![16] = 254],
    MkHeader(BGP_MH_HEAD_L - 1, 4),
    MkHeader(BGP_MAX_MSG_L + 1, 2),
    MkHeader(BGP_MH_HEAD_L, 6) }

NextR ==
  \/ bgp_connection_init_new(RConn, 1, bgp_connection_primary)
  \/ bgp_connection_open(RConn, WFd)
  \/ \E m \in GoodMsgs \cup BadMsgs :
       /\ Len(rx_msgs[RConn]) < MaxStream
       \* what follows a bad header is a KEEPALIVE
       /\ \/ \A i \in 1..Len(rx_msgs[RConn]) : rx_msgs[RConn][i] \in GoodMsgs
          \/ m = KEEPALIVE
       /\ peer_sends(RConn, m)
  \* one call reads one message at most
  \/ \E n \in 0..BGP_MAX_MSG_L :
     \E a \in ReadAnswers : bgp_connection_read_action(RConn, n, a)

SpecR == Init /\ [][NextR]_vars

\* the framer on well-formed streams, read without error: every way of
\* splitting the bytes across the calls
NextRGood ==
  \/ bgp_connection_init_new(RConn, 1, bgp_connection_primary)
  \/ bgp_connection_open(RConn, WFd)
  \/ \E m \in GoodMsgs \cup {MkMsg(1, <<7>>)} :
       /\ Len(rx_msgs[RConn]) < MaxStream
       /\ peer_sends(RConn, m)
  \/ \E n \in 0..BGP_MAX_MSG_L : bgp_connection_read_action(RConn, n, 1)

SpecRGood == Init /\ [][NextRGood]_vars

(* ------------------------------------------------------------------ *)
(* The connection queue                                                *)
(* ------------------------------------------------------------------ *)

\* the session and the ordinal a connection is created for
QSession(c) == (((c - 1) \div 2) % NSessions) + 1

QOrdinal(c) == (c - 1) % 2

NextQ ==
  \/ \E c \in Conns \ allocated :
       bgp_connection_init_new(c, QSession(c), QOrdinal(c))
  \/ \E c \in Conns : bgp_connection_queue_add(c)
  \/ \E c \in Conns : bgp_connection_queue_del(c)
  \/ \E c \in Conns : fsm_state(c, "Stopping")
  \/ \E c \in Conns :
       /\ Len(pending_queue[c]) < MaxPending
       /\ mqueue_enqueue(c, "mqb")
  \/ queue_process_call
  \/ queue_process_loop
  \/ queue_process_return

SpecQ == Init /\ [][NextQ]_vars

\* the loop of bgp_connection_queue_process keeps running
SpecQFair ==
  SpecQ /\ WF_vars(queue_process_loop) /\ WF_vars(queue_process_return)

\* the two connections of one session, through the collision and the
\* promotion of one of them
PConns == {c \in Conns : c <= 2}

PSession == CHOOSE s \in Sessions : \A t \in Sessions : s <= t

NextP ==
  \/ \E c \in PConns : \E o \in Ordinals :
       /\ c \in allocated => ~attached(c)
       /\ bgp_connection_init_new(c, PSession, o)
  \/ \E c \in PConns : \E fd \in Fds : bgp_connection_open(c, fd)
  \/ \E c \in PConns : \E n \in Negotiated : fsm_open_received(c, n)
  \/ \E c \in PConns : bgp_connection_make_primary(c)
  \/ \E c \in PConns : bgp_connection_close(c)

SpecP == Init /\ [][NextP]_vars

\* connections created for the slots of the sessions and promoted, and
\* nothing else
NextS ==
  \/ \E c \in Conns : \E s \in Sessions : \E o \in Ordinals :
       /\ c \in allocated => ~attached(c)
       /\ bgp_connection_init_new(c, s, o)
  \/ \E c \in Conns : bgp_connection_make_primary(c)

SpecS == Init /\ [][NextS]_vars

\* the write pipeline with the FSM's NOTIFICATION and the ready queue
NextN ==
  \/ NextW
  \/ fsm_notification_pending(WConn)
  \/ bgp_connection_queue_del(WConn)

SpecN == Init /\ [][NextN]_vars

\* a connection that is opened, closed and opened again, next to a
\* connection of another session that is opened once
Reopened == WConn

Fresh == CHOOSE c \in Conns \ {Reopened} : \A d \in Conns \ {Reopened} : c <= d

ReopenedSession == PSession

FreshSession ==
  CHOOSE s \in Sessions \ {ReopenedSession} :
    \A t \in Sessions \ {ReopenedSession} : s <= t

\* the fd of the first socket, and the fd of the second
Fd1 == WFd

Fd2 == CHOOSE fd \in Fds \ {Fd1} : \A g \in Fds \ {Fd1} : fd <= g

\* Reopened gets its second socket straight after its close, and never
\* without one; what it gets from the peer on the first socket is up to
\* the peer
NextE ==
  \/ \E o \in Ordinals :
       /\ Reopened \notin allocated
       /\ bgp_connection_init_new(Reopened, ReopenedSession, o)
  \/ bgp_connection_open(Reopened, Fd1)
  \/ \E n \in Negotiated :
       /\ qf[Reopened].fd = Fd1
       /\ fsm_open_received(Reopened, n)
  \/ /\ qf[Reopened].fd = Fd1
     /\ bgp_connection_close(Reopened)
  \/ /\ last.op = "close"
     /\ last.c = Reopened
     /\ bgp_connection_open(Reopened, Fd2)
  \/ \E o \in Ordinals :
       /\ Fresh \notin allocated
       /\ bgp_connection_init_new(Fresh, FreshSession, o)
  \/ bgp_connection_open(Fresh, Fd2)

SpecE == Init /\ [][NextE]_vars

\* the two connections of a session, one of them in use (opened, the
\* OPEN received, written to, stopped by the FSM, queued), and closed
NextC ==
  \/ \E c \in PConns \ allocated :
       bgp_connection_init_new(c, PSession, QOrdinal(c))
  \/ \E c \in PConns : bgp_connection_open(c, WFd)
  \/ \E c \in PConns : bgp_connection_queue_add(c)
  \/ \E n \in Negotiated : fsm_open_received(WConn, n)
  \/ fsm_state(WConn, "Stopping")
  \/ \E st \in Stops : fsm_stopped(WConn, st)
  \/ fsm_notification_pending(WConn)
  \/ /\ Len(pending_queue[WConn]) < MaxPending
     /\ mqueue_enqueue(WConn, "mqb")
  \/ \E k \in FlushAnswers(Len(KEEPALIVE)) :
       /\ nwrites[WConn] < 1
       /\ bgp_connection_write(WConn, KEEPALIVE, k)
  \/ \E c \in PConns : bgp_connection_close(c)

SpecC == Init /\ [][NextC]_vars

\* the I/O engine creates connections, one statement of init_new after
\* the other, while the other engine works on the sessions
NextM ==
  \/ \E c \in PConns : \E s \in Sessions : \E o \in Ordinals :
       /\ c \in allocated => ~attached(c)
       /\ init_new_assert(c, s, o)
  \/ init_new_lock
  \/ init_new_locked
  \/ init_new_unlock
  \/ \E s \in Sessions : control_lock(s)
  \/ \E s \in Sessions : control_accept(s)
  \/ \E s \in Sessions : control_unlock(s)

SpecM == Init /\ [][NextM]_vars

(* ------------------------------------------------------------------ *)
(* Properties of the write pipeline                                    *)
(* ------------------------------------------------------------------ *)

\* C1: the bytes the socket has taken are a prefix of the messages handed
\* to bgp_connection_write, in order: the socket never takes a byte that
\* is not the next byte owed to it.
C1_SocketTakesWhatIsOwed == \A c \in Conns : tx_ok[c]

\* the pointers of a write buffer are in order
RingOrdered(wb) ==
  /\ wb.base <= wb.p_out
  /\ wb.p_out <= wb.p_in
  /\ wb.p_in <= wb.limit

\* C3: after every operation, base <= p_out <= p_in <= limit in the write
\* buffer of every connection (write is called only while full is false,
\* with messages of at most BGP_MAX_MSG_L bytes).
C3_RingOrdered == \A c \in allocated : RingOrdered(wbuff[c])

\* C4: after every operation, the full flag of an allocated write buffer
\* is set exactly when less than BGP_MAX_MSG_L bytes remain between p_in
\* and limit.
C4_FullIsExact ==
  \A c \in allocated :
    wbuff[c].base # NULL =>
      (wbuff[c].full <=> (wbuff[c].limit - wbuff[c].p_in) < BGP_MAX_MSG_L)

(* ------------------------------------------------------------------ *)
(* Properties of the read framer                                       *)
(* ------------------------------------------------------------------ *)

\* the bytes of the peer's stream read so far
Consumed(c) == Len(Flatten(rx_msgs[c])) - Len(rx[c])

\* how many of the leading messages of ms lie wholly in the first n bytes
RECURSIVE WholeIn(_, _)
WholeIn(ms, n) ==
  IF ms = <<>> \/ Len(Head(ms)) > n THEN 0
  ELSE 1 + WholeIn(Tail(ms), n - Len(Head(ms)))

\* C2: on a well-formed stream, however its bytes are split across the
\* calls of read_action, the messages dispatched are exactly the messages
\* of the stream that have been read whole, in order and once each, and
\* read_pending is 0 after a call that dispatched.
C2_FramerDeliversStream ==
  /\ \A c \in Conns :
       dispatched[c] =
         SubSeq(rx_msgs[c], 1, WholeIn(rx_msgs[c], Consumed(c)))
  /\ (last.op = "read_action" /\ last.ret = 1) => read_pending[last.c] = 0

\* C2 witness: a stream of MaxStream messages, the last of them with a
\* body, has been read and dispatched whole
C2_Witness ==
  /\ Len(rx_msgs[RConn]) = MaxStream
  /\ Len(rx_msgs[RConn][MaxStream]) > BGP_MH_HEAD_L
  /\ rx_msgs[RConn][1] = KEEPALIVE
  /\ dispatched[RConn] = rx_msgs[RConn]
  /\ last.op = "read_action" /\ last.ret = 1

\* a header as the protocol wants it: marker of 16 bytes 0xFF, length
\* within BGP_MH_HEAD_L..BGP_MAX_MSG_L, a known type
GoodHeader(h) ==
  /\ \A i \in 1..16 : h[i] = 255
  /\ h[17] * 256 + h[18] >= BGP_MH_HEAD_L
  /\ h[17] * 256 + h[18] <= BGP_MAX_MSG_L
  /\ h[19] \in {1, 2, 3, 4}

\* the bytes of the header the framer of c is reading, with the bytes the
\* socket still holds
HeaderAhead(c) ==
  (IF read_pending[c] = 0 THEN <<>> ELSE ibuf[c]) \o rx[c]

\* this step is a call of read_action on c that completes a header, and
\* the header is bad
CompletesBadHeader(c) ==
  /\ last'.op = "read_action" /\ last'.c = c
  /\ read_pending[c] = 0 \/ read_header[c]
  /\ Len(HeaderAhead(c)) >= BGP_MH_HEAD_L
  /\ Len(HeaderAhead(c)) - Len(rx'[c]) >= BGP_MH_HEAD_L
  /\ ~GoodHeader(SubSeq(HeaderAhead(c), 1, BGP_MH_HEAD_L))

\* C10: a call of read_action that completes a 19-byte header that fails
\* validation raises the header-error event and dispatches nothing,
\* however the bytes of the header were split across the calls.
C10_BadHeaderRejected ==
  [][\A c \in Conns :
       CompletesBadHeader(c) =>
         /\ last'.raised = <<header_error>>
         /\ last'.ret = 0
         /\ dispatched' = dispatched]_vars

\* C10 witness: a bad header that came after a message was dispatched,
\* and in more than one call, has been rejected
C10_Witness ==
  /\ last.op = "read_action"
  /\ last.raised = <<header_error>>
  /\ Len(dispatched[RConn]) = 1
  /\ Len(ibuf[RConn]) = BGP_MH_HEAD_L
  /\ read_pending[RConn] \in 1..(BGP_MH_HEAD_L - 1)

(* ------------------------------------------------------------------ *)
(* Properties of the connection queue                                  *)
(* ------------------------------------------------------------------ *)

\* the connections reached from c by following next
RECURSIVE Reach(_, _)
Reach(c, seen) ==
  IF c = NULL \/ c \in seen THEN seen ELSE Reach(next[c], seen \cup {c})

\* the connections on the connection queue
ready_queue == Reach(bgp_connection_queue, {})

\* C5: for every connection, next is NULL exactly when prev is NULL,
\* exactly when the connection cannot be reached from
\* bgp_connection_queue.
C5_QueueDuality ==
  \A c \in Conns :
    /\ (next[c] = NULL) <=> (prev[c] = NULL)
    /\ (next[c] = NULL) <=> (c \notin ready_queue)

\* C5 witness: after a queue_del, two connections are on the queue and a
\* third, initialised, is not
C5_Witness ==
  /\ last.op = "queue_del"
  /\ next[last.c] = NULL
  /\ Cardinality(ready_queue) = 2
  /\ Cardinality(allocated) = 3

\* the connections whose next is set
Queued == {c \in Conns : next[c] # NULL}

\* the connection i steps of next from c
RECURSIVE Nth(_, _)
Nth(c, i) == IF i = 0 \/ c = NULL THEN c ELSE Nth(next[c], i - 1)

RingWellFormed ==
  LET N == Cardinality(Queued)
      head == bgp_connection_queue
  IN  /\ (head = NULL) <=> (Queued = {})
      /\ head # NULL =>
           /\ head \in Queued
           /\ Nth(head, N) = head
           /\ {Nth(head, i) : i \in 0..(N - 1)} = Queued
      /\ \A c \in Queued : prev[next[c]] = c /\ next[prev[c]] = c

\* this step is a queue_del of the connection at the head of the queue
DelOfHead ==
  /\ last'.op = "queue_del"
  /\ bgp_connection_queue # NULL
  /\ last'.c = bgp_connection_queue
  /\ ~aborted'

\* C6: the queue is a well-formed ring (the head is NULL exactly when
\* nothing is queued, N steps of next from the head come back to it
\* through every queued connection once, prev is the inverse of next),
\* and a queue_del of the head moves the head to its former next, or to
\* NULL if it was the only entry.
C6_RingWellFormed ==
  /\ []RingWellFormed
  /\ [][DelOfHead =>
          bgp_connection_queue' =
            IF next[bgp_connection_queue] = bgp_connection_queue THEN NULL
            ELSE next[bgp_connection_queue]]_vars

\* C6 witness: a queue_del has taken a connection off a queue of three,
\* and the head is no longer the connection queued first
C6_Witness ==
  /\ last.op = "queue_del"
  /\ last.c = 1
  /\ next[1] = NULL
  /\ bgp_connection_queue = 2
  /\ Queued = {2, 3}
  /\ next[2] = 3

\* C7: bgp_connection_queue_process, once called, returns, and the queue
\* is empty when it does.
C7_QueueProcessTerminates ==
  (qp # 0) ~> (qp = 0 /\ bgp_connection_queue = NULL)

(* ------------------------------------------------------------------ *)
(* Properties of bgp_connection_part_close                             *)
(* ------------------------------------------------------------------ *)

\* C8: part_close leaves full false (its assert(!wb->full) holds), also
\* on a connection whose write buffer was never allocated.
C8_PartCloseNotFull ==
  last.op = "part_close" => (~wbuff[last.c].full /\ last.ret # -1)

\* the buffer holds whole messages, one after the other, from offset off
\* to offset end
RECURSIVE WholeMsgs(_, _, _)
WholeMsgs(mem, off, end) ==
  \/ off = end
  \/ /\ off + BGP_MH_HEAD_L <= end
     /\ bgp_msg_get_mlen(mem, off) >= BGP_MH_HEAD_L
     /\ off + bgp_msg_get_mlen(mem, off) <= end
     /\ WholeMsgs(mem, off + bgp_msg_get_mlen(mem, off), end)

\* the offset of the message that holds offset at, the messages being
\* whole from offset off on
RECURSIVE MsgAt(_, _, _)
MsgAt(mem, off, at) ==
  IF at < off + bgp_msg_get_mlen(mem, off) THEN off
  ELSE MsgAt(mem, off + bgp_msg_get_mlen(mem, off), at)

\* what C9 expects part_close to make of the write buffer wb
InFlightKept(wb, after) ==
  LET at == wb.p_out - wb.base
      s == MsgAt(wb.mem, 0, at)
      mlen == bgp_msg_get_mlen(wb.mem, s)
  IN  IF at = s
      THEN after.p_in = wb.base /\ after.p_out = wb.base
      ELSE /\ after.p_in = wb.base + mlen
           /\ after.p_out = wb.base + (at - s)
           /\ Load(after.mem, 0, mlen) = Load(wb.mem, s, mlen)

\* C9: with whole messages from base to p_in and base <= p_out < p_in,
\* part_close keeps only the message in flight: nothing (p_in = p_out =
\* base) if p_out is at the start of a message, else the message holding
\* p_out, moved to base, with p_out as far into it as it was; the
\* pending queue is empty.
C9_PartCloseKeepsInFlight ==
  [][\A c \in Conns :
       ( /\ last'.op = "part_close" /\ last'.c = c
         /\ wbuff[c].base # NULL
         /\ wbuff[c].base <= wbuff[c].p_out
         /\ wbuff[c].p_out < wbuff[c].p_in
         /\ wbuff[c].p_in <= wbuff[c].limit
         /\ WholeMsgs(wbuff[c].mem, 0, wbuff[c].p_in - wbuff[c].base) )
       => /\ InFlightKept(wbuff[c], wbuff'[c])
          /\ pending_queue'[c] = <<>>]_vars

(* ------------------------------------------------------------------ *)
(* Properties of the promotion                                         *)
(* ------------------------------------------------------------------ *)

\* the step is a call of bgp_connection_make_primary(c)
MakePrimaryOf(c) ==
  /\ attached(c)
  /\ last'.op = "make_primary"
  /\ last'.c = c

\* C11: after make_primary(c) the session's hold_timer_interval and
\* keepalive_timer_interval are the ones c had before the call
C11_IntervalsCopied ==
  [][\A c \in Conns :
       MakePrimaryOf(c) =>
         LET s == conn[c].session
         IN  /\ session'[s].hold_timer_interval = conn[c].hold_timer_interval
             /\ session'[s].keepalive_timer_interval =
                  conn[c].keepalive_timer_interval]_vars

\* C12: after make_primary(c) the session's open_recv, su_local and
\* su_remote are the ones c had before the call, and c has none of them
C12_OwnershipTransferred ==
  [][\A c \in Conns :
       MakePrimaryOf(c) =>
         LET s == conn[c].session
         IN  /\ session'[s].open_recv = conn[c].open_recv
             /\ session'[s].su_local = conn[c].su_local
             /\ session'[s].su_remote = conn[c].su_remote
             /\ conn'[c].open_recv = NULL
             /\ conn'[c].su_local = NULL
             /\ conn'[c].su_remote = NULL]_vars

\* a connection that had received an OPEN was promoted: the session holds
\* its open_state and its addresses
C12_Witness ==
  /\ last.op = "make_primary"
  /\ session[conn[last.c].session].open_recv # NULL
  /\ session[conn[last.c].session].su_local # NULL
  /\ session[conn[last.c].session].su_remote # NULL
  /\ conn[last.c].open_recv = NULL

C14_WriteResult ==
  last.op = "write" =>
    /\ last.ret = 1 =>
         obuf[last.c] = <<>> /\ bgp_write_buffer_empty(wbuff[last.c])
    /\ (last.ret # -1 /\ ~bgp_write_buffer_empty(wbuff[last.c])) =>
         last.ret = 0
    /\ last.ret = -1 =>
         \E e \in 1..Len(last.raised) : last.raised[e].event = "io_error"

\* the step is a call of bgp_connection_write(c) with wbuff empty
DirectWriteOf(c) ==
  /\ bgp_write_buffer_empty(wbuff[c])
  /\ last'.op = "write"
  /\ last'.c = c

\* a write buffer that holds the message m from base on, of which the
\* last `left` bytes are to be written
StagedAtBase(wb, m, left) ==
  /\ wb.base # NULL
  /\ wb.limit - wb.base = 10 * BGP_MAX_MSG_L
  /\ wb.p_in = wb.base + Len(m)
  /\ wb.p_in - wb.p_out = left
  /\ Load(wb.mem, 0, Len(m)) = m

\* C15: bgp_connection_write with wbuff empty, the socket taking k of the
\* L bytes of the message: for k < L it returns 0, wbuff is allocated (10
\* times BGP_MAX_MSG_L, if it was not), holds the whole message at base
\* with p_in - p_out = L - k, and write mode is enabled; for k = L it
\* returns 1 and neither wbuff nor the modes of the qfile change.
C15_PartialFlush ==
  [][\A c \in Conns :
       DirectWriteOf(c) =>
         /\ last'.ret = 0 =>
              /\ \E m \in WriteMsgs : \E k \in 0..(Len(m) - 1) :
                   /\ StagedAtBase(wbuff'[c], m, Len(m) - k)
                   /\ (tx_ok[c] /\ unsent[c] = <<>>) =>
                        unsent'[c] = SubSeq(m, k + 1, Len(m))
              /\ wbuff[c].base # NULL =>
                   /\ wbuff'[c].base = wbuff[c].base
                   /\ wbuff'[c].limit = wbuff[c].limit
              /\ qf'[c].write
         /\ last'.ret = 1 =>
              /\ wbuff'[c] = wbuff[c]
              /\ qf'[c] = qf[c]
              /\ (tx_ok[c] /\ unsent[c] = <<>>) => unsent'[c] = <<>>]_vars

\* the socket took 20 of the 21 bytes of an UPDATE written to a connection
\* whose write buffer had not been allocated
C15_Witness ==
  /\ last.op = "write"
  /\ last.ret = 0
  /\ nwrites[last.c] = 1
  /\ StagedAtBase(wbuff[last.c], UPDATE(BGP_MAX_MSG_L), 1)
  /\ qf[last.c].write

\* a message was written in full, directly, leaving the write buffer
\* unallocated and write mode off
C15_WitnessDone ==
  /\ last.op = "write"
  /\ last.ret = 1
  /\ wbuff[last.c].base = NULL
  /\ ~qf[last.c].write
  /\ unsent[last.c] = <<>>


(* ------------------------------------------------------------------ *)
(* Properties of open and close                                        *)
(* ------------------------------------------------------------------ *)

\* the connection c and its session hold, field by field, what d and its
\* session hold, c standing for d where they are referred to
SameAs(c, d) ==
  /\ [conn[c] EXCEPT !.session = NULL] = [conn[d] EXCEPT !.session = NULL]
  /\ conn[c].session # NULL /\ conn[d].session # NULL
  /\ state[c] = state[d]
  /\ (next[c] = NULL) = (next[d] = NULL)
  /\ (prev[c] = NULL) = (prev[d] = NULL)
  /\ qf[c] = qf[d]
  /\ ibuf[c] = ibuf[d]
  /\ obuf[c] = obuf[d]
  /\ read_pending[c] = read_pending[d]
  /\ read_header[c] = read_header[d]
  /\ notification_pending[c] = notification_pending[d]
  /\ wbuff[c] = wbuff[d]
  /\ pending_queue[c] = pending_queue[d]
  /\ unsent[c] = unsent[d]
  /\ tx_ok[c] = tx_ok[d]
  /\ LET sc == session[conn[c].session]
         sd == session[conn[d].session]
     IN  /\ [sc EXCEPT !.connections = sd.connections] = sd
         /\ \A o \in Ordinals :
              /\ (sc.connections[o] = c) = (sd.connections[o] = d)
              /\ (sc.connections[o] = NULL) = (sd.connections[o] = NULL)

\* C16: after init_new, open(fd1), close, open(fd2) the buffers of the
\* connection are empty, its timers are unset, its qfile is registered
\* with fd2, and the connection and its session hold what a connection
\* (of the same ordinal) and its session hold after init_new, open(fd2).
C16_CloseReversible ==
  (/\ qf[Reopened].fd = Fd2
   /\ qf[Fresh].fd = Fd2
   /\ conn[Reopened].ordinal = conn[Fresh].ordinal)
  => /\ SameAs(Reopened, Fresh)
     /\ ibuf[Reopened] = <<>>
     /\ obuf[Reopened] = <<>>
     /\ bgp_write_buffer_empty(wbuff[Reopened])
     /\ conn[Reopened].hold_timer = "unset"
     /\ conn[Reopened].keepalive_timer = "unset"
     /\ qf[Reopened].selection

\* the connection has its second socket, which it got after the close of
\* the first, and the other connection has its only socket
C16_Witness ==
  /\ last.op = "open"
  /\ last.c = Reopened
  /\ qf[Reopened].fd = Fd2
  /\ qf[Fresh].fd = Fd2
  /\ conn[Reopened].ordinal = conn[Fresh].ordinal
  /\ conn[Reopened].ordinal = bgp_connection_secondary

\* C17: a bgp_connection_close that follows a bgp_connection_close of the
\* same connection changes nothing: not the connection, not the session,
\* not the registration of the qfile.
C17_CloseIdempotent ==
  [][~(/\ last.op = "close"
       /\ last'.op = "close"
       /\ last'.c = last.c)]_vars

\* a connection whose write buffer was allocated and held unsent bytes
\* has been closed
C17_Witness ==
  /\ last.op = "close"
  /\ wbuff[last.c].base # NULL
  /\ wbuff[last.c].mem # <<>>
  /\ nwrites[last.c] = MaxWrites

\* a connection that never had an fd, nor a write buffer, has been closed
C17_WitnessNeverOpened ==
  /\ last.op = "close"
  /\ wbuff[last.c].base = NULL
  /\ nwrites[last.c] = 0
  /\ conn[last.c].hold_timer_interval = 0


(* ------------------------------------------------------------------ *)
(* Properties of bgp_connection_write_action                           *)
(* ------------------------------------------------------------------ *)

\* what write() can answer when the socket accepts: a number of bytes, or
\* EINTR before it does
Accepting == {a \in WriteAnswers : a > 0} \cup {-EINTR}

AcceptSeqs == UNION {[1..i -> Accepting] : i \in 1..MaxSyscalls}

\* the bytes of [p_out, p_in)
Staged(wb) == Peek(wb.mem, wb.p_out - wb.base, wb.p_in - wb.p_out)

\* write_action can be invoked for c, and bytes are staged
WriteActionDue(c) ==
  /\ c \in allocated
  /\ qf[c].fd # fd_undef
  /\ qf[c].write
  /\ wbuff[c].p_out < wbuff[c].p_in

\* the loop of write_action for c, write() answering `answers` in turn
WriteActionRun(c, answers) ==
  write_action_loop(wbuff[c], write_action_have(wbuff[c]), answers, <<>>)

\* C18: when write_action is invoked with p_out < p_in and the socket
\* accepts every write (in parts, with EINTR in between), its loop hands
\* the socket bytes of [p_out, p_in) only, never fails, and ends having
\* written exactly those p_in - p_out bytes (after which p_in = p_out =
\* base, full is false and write mode is off).
C18_WriteActionDrains ==
  \A c \in Conns :
    WriteActionDue(c) =>
      /\ \A a \in AcceptSeqs :
           /\ IsPrefix(WriteActionRun(c, a).sent, Staged(wbuff[c]))
           /\ WriteActionRun(c, a).end # "return"
      /\ \E a \in AcceptSeqs :
           /\ WriteActionRun(c, a).end = "drained"
           /\ WriteActionRun(c, a).sent = Staged(wbuff[c])

\* the step is a call of bgp_connection_write_action(c)
WriteActionOf(c) ==
  /\ last'.op = "write_action"
  /\ last'.c = c

\* the call has posted Sent_NOTIFICATION_message
PostedSent ==
  \E e \in 1..Len(last'.raised) :
     last'.raised[e] = Sent_NOTIFICATION_message

\* the call has put c on the connection queue
PutOnQueue(c) == next[c] = NULL /\ next'[c] # NULL

\* whatever write() answers, the loop of write_action is left at its end
\* only with p_out at, or past, the p_in it started with
DrainedMeansWritten ==
  \A c \in Conns :
    (c \in allocated /\ qf[c].fd # fd_undef /\ qf[c].write) =>
      \A a \in AnswerSeqs(MaxSyscalls) :
        WriteActionRun(c, a).end = "drained" =>
          WriteActionRun(c, a).wb.p_out >= wbuff[c].p_in

C19_WitnessQueued ==
  /\ last.op = "write_action"
  /\ last.ret = 1
  /\ last.raised = <<>>
  /\ bgp_connection_queue = last.c


(* ------------------------------------------------------------------ *)
(* Properties of the read framing state                                *)
(* ------------------------------------------------------------------ *)

\* C20: whenever read_action is to go on with the body of a message
\* (read_pending > 0, read_header false), ibuf holds a complete header
\* that passed validation; a read_action that returned because the
\* header failed validation leaves read_pending 0; and no message with a
\* rejected header is ever dispatched, however the header was chunked.
C20_PendingBodyHasGoodHeader ==
  \A c \in Conns :
    /\ (read_pending[c] > 0 /\ ~read_header[c]) =>
         /\ Len(ibuf[c]) >= BGP_MH_HEAD_L
         /\ GoodHeader(SubSeq(ibuf[c], 1, BGP_MH_HEAD_L))
    /\ (last.op = "read_action" /\ last.c = c
          /\ last.raised = <<header_error>>) =>
         read_pending[c] = 0
    /\ \A i \in 1..Len(dispatched[c]) :
         GoodHeader(SubSeq(dispatched[c][i], 1, BGP_MH_HEAD_L))


(* ------------------------------------------------------------------ *)
(* Properties of the session's slots                                   *)
(* ------------------------------------------------------------------ *)

\* the connections whose session back-reference is s
RefersTo(s) == {c \in allocated : conn[c].session = s}

QueueProcessVisit == qp # 0 /\ qp' # 0 /\ qp' # qp

\* C22: an iteration of the loop of queue_process takes the connection at
\* the head of the queue; if its state is Stopping the connection is
\* reset with queue_head already moved to its next, which leaves it off
\* the queue (next and prev NULL, the head at its former next, or NULL if
\* it was alone) and closed; if its state is not Stopping it is not reset:
\* only the head moves.  Until queue_process returns no connection comes
\* onto the queue and no state changes, so a connection that was reset is
\* not visited again.
C22_StoppingIsReset ==
  [][/\ QueueProcessVisit =>
          LET c == bgp_connection_queue
          IN  /\ c # NULL /\ next[c] # NULL
              /\ last'.op = "queue_process" /\ last'.c = c
              /\ state[c] = "Stopping" =>
                   /\ last'.ret = 1
                   /\ next'[c] = NULL /\ prev'[c] = NULL
                   /\ bgp_connection_queue' =
                        (IF next[c] = c THEN NULL ELSE next[c])
                   /\ \A d \in Conns \ {c} :
                        next'[d] # NULL <=> next[d] # NULL
                   /\ qf'[c].fd = fd_undef
                   /\ pending_queue'[c] = <<>>
              /\ state[c] # "Stopping" =>
                   /\ last'.ret = 0
                   /\ bgp_connection_queue' = next[c]
                   /\ next' = next /\ prev' = prev
                   /\ conn' = conn /\ pending_queue' = pending_queue
     /\ (qp # 0 /\ qp' # 0) =>
          /\ state' = state
          /\ \A d \in Conns : next[d] = NULL => next'[d] = NULL]_vars

\* C22 witness: queue_process has reset a Stopping connection that was
\* not alone on the queue, and has not returned
C22_Witness ==
  /\ qp # 0
  /\ last.op = "queue_process" /\ last.ret = 1 /\ last.c # NULL
  /\ state[last.c] = "Stopping"
  /\ next[last.c] = NULL
  /\ bgp_connection_queue # NULL

\* the connections in the order the cursor meets them: from
\* bgp_connection_queue, following next, once round the ring
CursorOrder ==
  [i \in 1..Cardinality(Queued) |-> Nth(bgp_connection_queue, i - 1)]

\* the place of a queued connection in the cursor's order
CursorPlace(c) == CHOOSE i \in 1..Cardinality(Queued) : CursorOrder[i] = c

\* C23: a queue_add of a connection that is not queued puts it last in
\* the cursor's order, after every connection that was queued, whose
\* order it keeps; a queue_add of a queued connection changes nothing of
\* the queue.  Outside queue_process no step changes the order of two
\* connections that stay queued, so the cursor's order is the order in
\* which the connections were added.
C23_QueueAddIsLast ==
  [][/\ \A c \in Conns :
          (last'.op = "queue_add" /\ last'.c = c) =>
             IF next[c] = NULL
             THEN CursorOrder' = Append(CursorOrder, c)
             ELSE /\ bgp_connection_queue' = bgp_connection_queue
                  /\ next' = next /\ prev' = prev
     /\ (qp = 0 /\ qp' = 0) =>
          \A a, b \in Queued \cap Queued' :
             CursorPlace(a) < CursorPlace(b) =>
                CursorPlace(a)' < CursorPlace(b)']_vars

\* C23 witness: a connection that was taken off the head of the queue
\* has been added again, behind the two that were added after it
C23_Witness ==
  /\ last.op = "queue_add"
  /\ last.c = 1
  /\ CursorOrder = <<2, 3, 1>>
  /\ bgp_connection_queue = 2

(* ------------------------------------------------------------------ *)
(* What bgp_connection_close leaves alone                              *)
(* ------------------------------------------------------------------ *)

\* this step is bgp_connection_close(c)
CloseOf(c) == last'.op = "close" /\ last'.c = c

\* C24: close leaves the connection's state, its session and ordinal, the
\* session (its connections[] included), the open_state received, the
\* notification and the stopped cause as they were, as well as the host,
\* the timer intervals, the queue links, the write buffer's memory and
\* every other connection; what it changes is the qfile (no fd, in no
\* selection), the two addresses (cleared), the two timers (unset), ibuf
\* and obuf (empty), read_pending, read_header and notification_pending
\* (zero), the write buffer's p_in, p_out and full (empty at base) and
\* the pending queue (empty).
C24_CloseFrame ==
  [][\A c \in Conns :
       CloseOf(c) =>
          /\ state' = state
          /\ conn'[c].session = conn[c].session
          /\ conn'[c].ordinal = conn[c].ordinal
          /\ session' = session
          /\ conn'[c].open_recv = conn[c].open_recv
          /\ conn'[c].notification = conn[c].notification
          /\ conn'[c].stopped = conn[c].stopped
          /\ conn'[c] = [conn[c] EXCEPT !.su_local = NULL, !.su_remote = NULL,
                                        !.hold_timer = "unset",
                                        !.keepalive_timer = "unset"]
          /\ allocated' = allocated
          /\ UNCHANGED qvars
          /\ qf'[c] = ZeroQf
          /\ ibuf'[c] = <<>> /\ obuf'[c] = <<>>
          /\ read_pending'[c] = 0
          /\ ~read_header'[c] /\ ~notification_pending'[c]
          /\ wbuff'[c] = [wbuff[c] EXCEPT !.p_in = wbuff[c].base,
                                          !.p_out = wbuff[c].base,
                                          !.full = FALSE]
          /\ pending_queue'[c] = <<>>
          /\ \A d \in Conns \ {c} :
               /\ conn'[d] = conn[d] /\ qf'[d] = qf[d]
               /\ ibuf'[d] = ibuf[d] /\ obuf'[d] = obuf[d]
               /\ read_pending'[d] = read_pending[d]
               /\ read_header'[d] = read_header[d]
               /\ notification_pending'[d] = notification_pending[d]
               /\ wbuff'[d] = wbuff[d]
               /\ pending_queue'[d] = pending_queue[d]]_vars

\* C24 witness: a connection that is Stopping, stopped with a
\* notification, holding a received open_state and queued behind its
\* sibling has been closed, and has kept all of that
C24_Witness ==
  /\ last.op = "close"
  /\ last.c = WConn
  /\ state[WConn] = "Stopping"
  /\ conn[WConn].open_recv # NULL
  /\ conn[WConn].notification # NULL
  /\ conn[WConn].stopped # "not"
  /\ session[conn[WConn].session].connections[conn[WConn].ordinal] = WConn
  /\ bgp_connection_get_sibling(WConn) # NULL
  /\ next[WConn] # NULL /\ bgp_connection_queue # WConn
  /\ qf[WConn].fd = fd_undef
  /\ conn[WConn].su_local = NULL
  /\ wbuff[WConn].base # NULL /\ wbuff[WConn].p_in = wbuff[WConn].base
  /\ pending_queue[WConn] = <<>>

(* ------------------------------------------------------------------ *)
(* The session's fields and the session mutex                          *)
(* ------------------------------------------------------------------ *)

\* this step of bgp_connection_init_new reads or writes a field of s:
\* the assert reads connections[ordinal], the statements between the
\* lock and the unlock write connections[ordinal] and read host
InitNewAccess(s) ==
  \/ /\ last'.op = "init_new_assert" /\ last.op # "init_new_assert"
     /\ last'.raised = <<s>>
  \/ /\ last'.op = "init_new" /\ last.op = "init_new_lock"
     /\ last.raised = <<s>>

\* C25: every step of init_new that reads or writes a field of the
\* session is taken while the I/O engine holds the session's mutex.
C25_SessionUnderMutex ==
  [][\A s \in Sessions :
       InitNewAccess(s) => session[s].mutex = "io_engine"]_vars


====
